---- MODULE Spec2Model ----
(***************************************************************************)
(* A model of two parts of the installer:                                  *)
(*   - action/common/place_channel_configuration.rs: the action that       *)
(*     serialises a list of channels into ~/.nix-channels by delegating to *)
(*     the CreateFile action;                                              *)
(*   - self_test.rs: the shell catalog, discovery and the aggregate        *)
(*     self-test.                                                          *)
(* Text is modelled as a sequence of characters (one-character strings;    *)
(* "SP" is the space and "LF" the newline), a path as the sequence of its  *)
(* components, and Option<T> as a sequence of length 0 (None) or 1 (Some). *)
(***************************************************************************)
EXTENDS Integers, Sequences, FiniteSets, TLC

\* ------------------------------------------------------------------ bounds
\* Longest channel list handed to plan.
MaxChannels == 2

\* --------------------------------------------------------------- text, paths
SP == "SP"
LF == "LF"
BQ == "BQ"

\* Channel names: arbitrary Strings, two ordinary ones and one that holds a newline.
Names == {<<"n", "p">>, <<"o", "s">>, <<"x", LF, "y">>}

\* Channel URLs in their serialised form (Url's Display prints the serialisation,
\* which never holds a space or a newline).
Urls == {<<"u", "1">>, <<"u", "2">>}

Channel == Names \X Urls

RECURSIVE SeqsUpTo(_, _)
SeqsUpTo(S, n) ==
    IF n = 0 THEN {<<>>}
    ELSE LET shorter == SeqsUpTo(S, n - 1)
         IN shorter \cup {Append(s, x) : s \in {t \in shorter : Len(t) = n - 1}, x \in S}

ChannelLists == SeqsUpTo(Channel, MaxChannels)

\* format!("{} {}", url, name)
FormatLine(channel) == channel[2] \o <<SP>> \o channel[1]

\* [String]::join(sep)
RECURSIVE Join(_, _)
Join(lines, sep) ==
    IF Len(lines) = 0 THEN <<>>
    ELSE IF Len(lines) = 1 THEN lines[1]
    ELSE lines[1] \o sep \o Join(Tail(lines), sep)

\* channels.iter().map(..).collect::<Vec<_>>().join("\n")
Serialize(channels) ==
    Join([i \in 1..Len(channels) |-> FormatLine(channels[i])], <<LF>>)

\* The home directories dirs::home_dir() may resolve to; <<>> is None.
HomeDirs == {<<"root">>}
HomeOptions == {<<>>} \cup {<<h>> : h \in HomeDirs}

\* PathBuf::join(".nix-channels")
ChannelsFile == ".nix-channels"
PathJoin(dir, name) == Append(dir, name)

Paths == {PathJoin(h, ChannelsFile) : h \in HomeDirs}

\* 0o0664
ModeChannels == 436

\* ------------------------------------------------------------- file system
NoFile == [exists |-> FALSE, content |-> <<>>, mode |-> 0]
OldFile == [exists |-> TRUE, content |-> <<"o", "l", "d">>, mode |-> 420]
File(content, mode) == [exists |-> TRUE, content |-> content, mode |-> mode]

\* ------------------------------------------------------------------ results
Ok == [ok |-> TRUE, kind |-> "Ok", source |-> "none"]
Err(kind, source) == [ok |-> FALSE, kind |-> kind, source |-> source]

\* ActionState
Uncompleted == "Uncompleted"
Progress == "Progress"
Completed == "Completed"
ActionStates == {Uncompleted, Progress, Completed}

\* one invocation of the inner action, as a mock of it would record it: the
\* method, its arguments and what it returned
Invocation(call, args, res) == [call |-> call, args |-> args, res |-> res]

VARIABLES
    home,       \* Option<PathBuf>: what dirs::home_dir() returns on this host
    fs,         \* the files at the paths the action may touch
    pcc,        \* Option<PlaceChannelConfiguration>: the planned action, if any
    planned,    \* the (channels, force) handed to plan, <<>> before plan is called
    last,       \* the last call made on the action: operation, result, inner calls
    prev,       \* the call before it
    present,    \* the shells `which` finds on this host
    probe,      \* what running the minimal command through each shell would do
    st          \* the aggregate self_test() in flight: its locals and its result

vars == <<home, fs, pcc, planned, last, prev, present, probe, st>>
placerVars == <<home, fs, pcc, planned, last, prev>>
selfTestVars == <<present, probe, st>>

\* A call on the action as a caller observes it: the operation, its result, the
\* calls it made on the inner action, the files and the action before it, and
\* the value it returned.
Call(op, res, inner, fsBefore, selfBefore, out) ==
    [op |-> op, res |-> res, inner |-> inner, fsBefore |-> fsBefore,
     selfBefore |-> selfBefore, out |-> out]
NoCall == Call("none", Ok, <<>>, [p \in Paths |-> NoFile], <<>>, <<>>)

\* ------------------------------------------------- CreateFile (inner action)
\* The file-creation action the placer owns. It refuses to plan over a file that
\* is already there unless force is set; its execute writes the content with the
\* mode and advances its state; its revert undoes that and moves the state back;
\* try_execute is execute behind the state guard.
CreateFilePlan(path, user, group, mode, buf, force, f) ==
    IF f[path].exists /\ ~force
    THEN [res |-> Err("CreateFileError::Exists", "none"), action |-> <<>>]
    ELSE [res |-> Ok,
          action |-> <<[path |-> path, user |-> user, group |-> group, mode |-> mode,
                        buf |-> buf, force |-> force, action_state |-> Uncompleted,
                        prior |-> NoFile]>>]

CreateFileExecute(cf, f, io) ==
    IF ~io THEN [res |-> Err("CreateFileError::Io", "none"), action |-> cf, fs |-> f]
    ELSE IF f[cf.path].exists /\ ~cf.force
    THEN [res |-> Err("CreateFileError::Exists", "none"), action |-> cf, fs |-> f]
    ELSE [res |-> Ok,
          action |-> [cf EXCEPT !.action_state = Completed, !.prior = f[cf.path]],
          fs |-> [f EXCEPT ![cf.path] = File(cf.buf, cf.mode)]]

CreateFileTryExecute(cf, f, io) ==
    IF cf.action_state = Completed
    THEN [res |-> Ok, action |-> cf, fs |-> f]
    ELSE CreateFileExecute(cf, f, io)

CreateFileRevert(cf, f, io) ==
    IF cf.action_state = Uncompleted
    THEN [res |-> Ok, action |-> cf, fs |-> f]
    ELSE IF ~io THEN [res |-> Err("CreateFileError::Io", "none"), action |-> cf, fs |-> f]
    ELSE [res |-> Ok,
          action |-> [cf EXCEPT !.action_state = Uncompleted, !.prior = NoFile],
          fs |-> [f EXCEPT ![cf.path] = cf.prior]]

\* ------------------------------------------ PlaceChannelConfiguration
\* The arguments plan hands to CreateFile::plan.
CreateFileArgs(path, buf, force) ==
    [path |-> path, user |-> <<>>, group |-> <<>>, mode |-> ModeChannels,
     buf |-> buf, force |-> force]

\* plan as it would be if an unresolvable home fell back to /root.
plan_default_home(channels, force, h, f) ==
    LET buf == Serialize(channels)
        dir == IF h = <<>> THEN <<"root">> ELSE h[1]
        a == CreateFileArgs(PathJoin(dir, ChannelsFile), buf, force)
        r == CreateFilePlan(a.path, a.user, a.group, a.mode, a.buf, a.force, f)
        calls == <<Invocation("plan", <<a>>, r.res)>>
    IN IF ~r.res.ok
       THEN [res |-> r.res, action |-> <<>>, inner |-> calls]
       ELSE [res |-> Ok,
             action |-> <<[create_file |-> r.action[1], channels |-> channels,
                           action_state |-> Uncompleted]>>,
             inner |-> calls]

\* plan as it would be if it always forced the inner action.
plan_always_forces(channels, force, h, f) ==
    LET buf == Serialize(channels)
    IN IF h = <<>>
       THEN [res |-> Err("PlaceChannelConfigurationError::NoRootHome", "none"),
             action |-> <<>>, inner |-> <<>>]
       ELSE LET a == CreateFileArgs(PathJoin(h[1], ChannelsFile), buf, TRUE)
                r == CreateFilePlan(a.path, a.user, a.group, a.mode, a.buf, a.force, f)
                calls == <<Invocation("plan", <<a>>, r.res)>>
            IN IF ~r.res.ok
               THEN [res |-> r.res, action |-> <<>>, inner |-> calls]
               ELSE [res |-> Ok,
                     action |-> <<[create_file |-> r.action[1], channels |-> channels,
                                   action_state |-> Uncompleted]>>,
                     inner |-> calls]

\* PlaceChannelConfiguration::plan(channels, force) on a host whose home is h and
\* whose files are f: the result, the action (if any) and the inner calls made.
plan(channels, force, h, f) ==
    LET buf == Serialize(channels)
    IN IF h = <<>>
       THEN [res |-> Err("PlaceChannelConfigurationError::NoRootHome", "none"),
             action |-> <<>>, inner |-> <<>>]
       ELSE LET a == CreateFileArgs(PathJoin(h[1], ChannelsFile), buf, force)
                r == CreateFilePlan(a.path, a.user, a.group, a.mode, a.buf, a.force, f)
                calls == <<Invocation("plan", <<a>>, r.res)>>
            IN IF ~r.res.ok
               THEN [res |-> r.res, action |-> <<>>, inner |-> calls]
               ELSE [res |-> Ok,
                     action |-> <<[create_file |-> r.action[1], channels |-> channels,
                                   action_state |-> Uncompleted]>>,
                     inner |-> calls]

\* execute as it would be if it marked the action in progress before delegating
\* and completed after: a failure of the inner action leaves Progress behind.
execute_marks_progress(self, f, io) ==
    LET r == CreateFileTryExecute(self.create_file, f, io)
    IN [res |-> IF ~r.res.ok THEN r.res ELSE Ok,
        self |-> [self EXCEPT !.create_file = r.action,
                              !.action_state = IF r.res.ok THEN Completed ELSE Progress],
        fs |-> r.fs,
        inner |-> <<Invocation("try_execute", <<>>, r.res)>>]

\* execute as it would be if it called the inner execute, not try_execute.
execute_unguarded(self, f, io) ==
    LET r == CreateFileExecute(self.create_file, f, io)
    IN [res |-> IF ~r.res.ok THEN r.res ELSE Ok,
        self |-> [self EXCEPT !.create_file = r.action],
        fs |-> r.fs,
        inner |-> <<Invocation("execute", <<>>, r.res)>>]

\* execute as it would be if it tried the inner action a second time after a
\* failure (the second attempt meets no I/O error).
execute_retries(self, f, io) ==
    LET r == CreateFileTryExecute(self.create_file, f, io)
        again == CreateFileTryExecute(r.action, r.fs, TRUE)
    IN IF r.res.ok
       THEN [res |-> Ok, self |-> [self EXCEPT !.create_file = r.action], fs |-> r.fs,
             inner |-> <<Invocation("try_execute", <<>>, r.res)>>]
       ELSE [res |-> IF ~again.res.ok THEN again.res ELSE Ok,
             self |-> [self EXCEPT !.create_file = again.action],
             fs |-> again.fs,
             inner |-> <<Invocation("try_execute", <<>>, r.res),
                         Invocation("try_execute", <<>>, again.res)>>]

\* execute as it would be if it built the content again, in the "name=url, ..."
\* form of its tracing field, before delegating.
execute_rederives_content(self, f, io) ==
    LET again == Join([i \in 1..Len(self.channels) |->
                          self.channels[i][1] \o <<"=">> \o self.channels[i][2]],
                      <<",", SP>>)
        r == CreateFileTryExecute([self.create_file EXCEPT !.buf = again], f, io)
    IN [res |-> IF ~r.res.ok THEN r.res ELSE Ok,
        self |-> [self EXCEPT !.create_file = r.action],
        fs |-> r.fs,
        inner |-> <<Invocation("try_execute", <<>>, r.res)>>]

\* execute(&mut self): create_file.try_execute().await?; Ok(())
execute(self, f, io) ==
    LET r == CreateFileTryExecute(self.create_file, f, io)
    IN [res |-> IF ~r.res.ok THEN r.res ELSE Ok,
        self |-> [self EXCEPT !.create_file = r.action],
        fs |-> r.fs,
        inner |-> <<Invocation("try_execute", <<>>, r.res)>>]

\* revert as it would be if it returned Ok(()) without delegating.
revert_skips_inner(self, f, io) ==
    [res |-> Ok, self |-> self, fs |-> f, inner |-> <<>>]

\* revert as it would be if it removed the file itself, whatever the inner
\* action had done.
revert_removes_file(self, f, io) ==
    [res |-> IF io THEN Ok ELSE Err("std::io::Error", "none"),
     self |-> self,
     fs |-> IF io THEN [f EXCEPT ![self.create_file.path] = NoFile] ELSE f,
     inner |-> <<>>]

\* revert(&mut self): create_file.revert().await?; Ok(())
revert(self, f, io) ==
    LET r == CreateFileRevert(self.create_file, f, io)
    IN [res |-> IF ~r.res.ok THEN r.res ELSE Ok,
        self |-> [self EXCEPT !.create_file = r.action],
        fs |-> r.fs,
        inner |-> <<Invocation("revert", <<>>, r.res)>>]

action_state(self) == self.action_state

set_action_state(self, s) == [self EXCEPT !.action_state = s]

\* format!("Place channel configuration at `{}`", self.create_file.path.display()); BQ is the backquote
tracing_synopsis(self) ==
    <<"Place channel configuration at ", BQ, self.create_file.path, BQ>>

\* vec![ActionDescription::new(self.tracing_synopsis(), vec![])]
execute_description(self) == <<[description |-> tracing_synopsis(self), explanation |-> <<>>]>>

revert_description(self) ==
    <<[description |-> <<"Remove channel configuration at ", BQ, self.create_file.path, BQ>>,
       explanation |-> <<>>]>>

\* ------------------------------------------------------------------ actions
InitPlacer ==
    /\ home \in HomeOptions
    /\ fs \in [Paths -> {NoFile, OldFile}]
    /\ pcc = <<>>
    /\ planned = <<>>
    /\ last = NoCall
    /\ prev = NoCall

Plan ==
    /\ pcc = <<>>
    /\ planned = <<>>
    /\ \E channels \in ChannelLists, force \in BOOLEAN :
          LET r == plan(channels, force, home, fs)
          IN /\ pcc' = r.action
             /\ planned' = <<[channels |-> channels, force |-> force]>>
             /\ last' = Call("plan", r.res, r.inner, fs, pcc, <<>>)
    /\ prev' = last
    /\ UNCHANGED <<home, fs, selfTestVars>>

Execute ==
    /\ pcc # <<>>
    /\ \E io \in BOOLEAN :
          LET r == execute(pcc[1], fs, io)
          IN /\ pcc' = <<r.self>>
             /\ fs' = r.fs
             /\ last' = Call("execute", r.res, r.inner, fs, pcc, <<>>)
    /\ prev' = last
    /\ UNCHANGED <<home, planned, selfTestVars>>

Revert ==
    /\ pcc # <<>>
    /\ \E io \in BOOLEAN :
          LET r == revert(pcc[1], fs, io)
          IN /\ pcc' = <<r.self>>
             /\ fs' = r.fs
             /\ last' = Call("revert", r.res, r.inner, fs, pcc, <<>>)
    /\ prev' = last
    /\ UNCHANGED <<home, planned, selfTestVars>>

SetActionState ==
    /\ pcc # <<>>
    /\ \E s \in ActionStates :
          /\ pcc' = <<set_action_state(pcc[1], s)>>
          /\ last' = Call("set_action_state", Ok, <<>>, fs, pcc, <<s>>)
    /\ prev' = last
    /\ UNCHANGED <<home, fs, planned, selfTestVars>>

TracingSynopsis ==
    /\ pcc # <<>>
    /\ last' = Call("tracing_synopsis", Ok, <<>>, fs, pcc, tracing_synopsis(pcc[1]))
    /\ prev' = last
    /\ UNCHANGED <<home, fs, pcc, planned, selfTestVars>>

ExecuteDescription ==
    /\ pcc # <<>>
    /\ last' = Call("execute_description", Ok, <<>>, fs, pcc, execute_description(pcc[1]))
    /\ prev' = last
    /\ UNCHANGED <<home, fs, pcc, planned, selfTestVars>>

RevertDescription ==
    /\ pcc # <<>>
    /\ last' = Call("revert_description", Ok, <<>>, fs, pcc, revert_description(pcc[1]))
    /\ prev' = last
    /\ UNCHANGED <<home, fs, pcc, planned, selfTestVars>>

\* ------------------------------------------------------------- self-test
\* Shell::all()
AllShells == <<"Sh", "Bash", "Fish", "Zsh">>
Shells == {AllShells[i] : i \in 1..Len(AllShells)}

\* Shell::executable
executable(shell) ==
    CASE shell = "Sh" -> "sh"
      [] shell = "Bash" -> "bash"
      [] shell = "Fish" -> "fish"
      [] shell = "Zsh" -> "zsh"

\* What the host would do with a minimal command run through a shell: exit zero,
\* fail to start the interpreter, exit non-zero, or fail to read the clock.
ProbeOutcomes == {"exit_zero", "spawn_failed", "exit_nonzero", "clock_failed"}

\* Shell::self_test(&self): the body is Ok(()); nothing is run.
ShellSelfTest(shell) == Ok

\* Shell::discover(): the loop over Shell::all(), from its i-th entry on
RECURSIVE DiscoverFrom(_, _, _)
DiscoverFrom(i, found_shells, which) ==
    IF i > Len(AllShells) THEN found_shells
    ELSE DiscoverFrom(i + 1,
                      IF executable(AllShells[i]) \in which
                      THEN Append(found_shells, AllShells[i])
                      ELSE found_shells,
                      which)

\* discover as it would be if it put each found shell in front of the others.
RECURSIVE DiscoverFrontFrom(_, _, _)
DiscoverFrontFrom(i, found_shells, which) ==
    IF i > Len(AllShells) THEN found_shells
    ELSE DiscoverFrontFrom(i + 1,
                           IF executable(AllShells[i]) \in which
                           THEN <<AllShells[i]>> \o found_shells
                           ELSE found_shells,
                           which)

discover_prepends(which) == DiscoverFrontFrom(1, <<>>, which)

discover(which) == DiscoverFrom(1, <<>>, which)

Idle == [pc |-> "idle", shells |-> <<>>, next |-> 1, tested |-> <<>>,
         returned |-> <<>>, failures |-> <<>>, result |-> <<>>]

InitSelfTest ==
    /\ present \in SUBSET {executable(s) : s \in Shells}
    /\ probe \in [Shells -> ProbeOutcomes]
    /\ st = Idle

\* let shells = Shell::discover(); let mut failures = vec![];
SelfTestDiscover ==
    /\ st.pc = "idle"
    /\ st' = [st EXCEPT !.pc = "loop", !.shells = discover(present)]
    /\ UNCHANGED <<present, probe, placerVars>>

\* the loop as it would be if it left after the first shell
SelfTestShellThenBreak ==
    /\ st.pc = "loop"
    /\ st.next <= Len(st.shells)
    /\ LET shell == st.shells[st.next]
           r == ShellSelfTest(shell)
       IN st' = [st EXCEPT !.next = Len(st.shells) + 1,
                           !.tested = Append(@, shell),
                           !.returned = Append(@, r),
                           !.failures = IF r.ok THEN @
                                        ELSE Append(@, [shell |-> shell, err |-> r])]
    /\ UNCHANGED <<present, probe, placerVars>>

\* one iteration of `for shell in shells`
SelfTestShell ==
    /\ st.pc = "loop"
    /\ st.next <= Len(st.shells)
    /\ LET shell == st.shells[st.next]
           r == ShellSelfTest(shell)
       IN st' = [st EXCEPT !.next = @ + 1,
                           !.tested = Append(@, shell),
                           !.returned = Append(@, r),
                           !.failures = IF r.ok THEN @
                                        ELSE Append(@, [shell |-> shell, err |-> r])]
    /\ UNCHANGED <<present, probe, placerVars>>

\* if failures.is_empty() { Ok(()) } else { Err(failures) }
SelfTestReturn ==
    /\ st.pc = "loop"
    /\ st.next > Len(st.shells)
    /\ st' = [st EXCEPT !.pc = "done",
                        !.result = IF st.failures = <<>>
                                   THEN <<[ok |-> TRUE, failures |-> <<>>]>>
                                   ELSE <<[ok |-> FALSE, failures |-> st.failures]>>]
    /\ UNCHANGED <<present, probe, placerVars>>

\* ------------------------------------------------------------ specifications
\* The placer on a host; no self-test runs.
Init ==
    /\ InitPlacer
    /\ present = {}
    /\ probe = [s \in Shells |-> "exit_zero"]
    /\ st = Idle

Next ==
    \/ Plan
    \/ Execute
    \/ Revert
    \/ SetActionState
    \/ TracingSynopsis
    \/ ExecuteDescription
    \/ RevertDescription

Spec == Init /\ [][Next]_vars

\* The placer driven by plan, execute and revert alone.
NextExecRevert ==
    \/ Plan
    \/ Execute
    \/ Revert

SpecExecRevert == Init /\ [][NextExecRevert]_vars

\* The aggregate self-test on a host; no action is planned.
InitHost ==
    /\ InitSelfTest
    /\ home = <<>>
    /\ fs = [p \in Paths |-> NoFile]
    /\ pcc = <<>>
    /\ planned = <<>>
    /\ last = NoCall
    /\ prev = NoCall

NextSelfTest ==
    \/ SelfTestDiscover
    \/ SelfTestShell
    \/ SelfTestReturn

SpecSelfTest == InitHost /\ [][NextSelfTest]_vars

\* The aggregate self-test run to its end: self_test() is one sequential async
\* function that its caller awaits, so a step that can be taken is taken.
FairSelfTest == SpecSelfTest /\ WF_vars(NextSelfTest)

\* ------------------------------------------------------------------- claims
\* The path of the file the planned action writes.
Target == pcc[1].create_file.path

\* C1: after a successful execute() action_state() is Completed, and after a
\* successful revert() that follows it action_state() is Uncompleted again.
C1_ExecuteCompletesRevertUncompletes ==
    /\ (last.op = "execute" /\ last.res.ok) => action_state(pcc[1]) = Completed
    /\ (prev.op = "execute" /\ prev.res.ok /\ last.op = "revert" /\ last.res.ok)
          => action_state(pcc[1]) = Uncompleted

\* C2: a successful plan returns an action whose action_state() is Uncompleted,
\* and after any sequence of execute() and revert() calls, successful or
\* failing, action_state() is Uncompleted or Completed and nothing else.
C2_OnlyUncompletedOrCompleted ==
    /\ (last.op = "plan" /\ last.res.ok)
          => (pcc # <<>> /\ action_state(pcc[1]) = Uncompleted)
    /\ pcc # <<>> => action_state(pcc[1]) \in {Uncompleted, Completed}

\* a failed execute() then a revert() on a planned action
C2_Witness ==
    /\ pcc # <<>>
    /\ prev.op = "execute" /\ ~prev.res.ok
    /\ last.op = "revert" /\ last.res.ok
    /\ action_state(pcc[1]) \in {Uncompleted, Completed}

C4_ExecuteIdempotent ==
    (prev.op = "execute" /\ prev.res.ok /\ last.op = "execute")
       => /\ last.res.ok
          /\ fs = last.fsBefore
          /\ fs[Target].exists
          /\ fs[Target].content = Serialize(planned[1].channels)

\* two successful execute() calls in a row on a plan of two channels
C4_Witness ==
    /\ prev.op = "execute" /\ prev.res.ok
    /\ last.op = "execute" /\ last.res.ok
    /\ Len(planned[1].channels) = 2
    /\ fs[Target].content = Serialize(planned[1].channels)

RECURSIVE SplitLines(_)
SplitLines(text) ==
    IF \A i \in 1..Len(text) : text[i] # LF THEN <<text>>
    ELSE LET k == CHOOSE i \in 1..Len(text) :
                     text[i] = LF /\ \A j \in 1..(i - 1) : text[j] # LF
         IN <<SubSeq(text, 1, k - 1)>> \o SplitLines(SubSeq(text, k + 1, Len(text)))

\* The content plan handed to CreateFile::plan in the last call.
PlannedBuf == last.inner[1].args[1].buf

\* C6: the content plan hands to the file primitive is one line "<endpoint>
\* <name>" per entry of the list, in the list's order, with a single newline
\* between lines and none before or after: len(L) lines for a non-empty L.
C6_ContentIsOneLinePerEntry ==
    (last.op = "plan" /\ last.inner # <<>>)
       => LET L == planned[1].channels
              lines == SplitLines(PlannedBuf)
          IN /\ L = <<>> => PlannedBuf = <<>>
             /\ L # <<>> =>
                   /\ Len(lines) = Len(L)
                   /\ \A i \in 1..Len(L) : lines[i] = L[i][2] \o <<SP>> \o L[i][1]
                   /\ PlannedBuf[1] # LF
                   /\ PlannedBuf[Len(PlannedBuf)] # LF

\* C7: when the home directory is unresolvable, plan fails with NoRootHome, makes
\* no call on the inner action, changes no file and produces no action.
C7_NoHomeFailsBeforeInnerPlan ==
    (last.op = "plan" /\ home = <<>>)
       => /\ last.res = Err("PlaceChannelConfigurationError::NoRootHome", "none")
          /\ last.inner = <<>>
          /\ fs = last.fsBefore
          /\ pcc = <<>>

\* plan was called with two channels on a host without a home, where the target
\* path of another home already holds a file
C7_Witness ==
    /\ last.op = "plan" /\ home = <<>>
    /\ ~last.res.ok
    /\ Len(planned[1].channels) = 2
    /\ \E p \in Paths : fs[p] = OldFile

\* The shells of a list that the host's probe would fail, in the list's order.
FailingOf(shells) == SelectSeq(shells, LAMBDA s : probe[s] # "exit_zero")

\* The discovered shells in the order sh, bash, fish, zsh.
PresentInCatalogOrder ==
    SelectSeq(<<"Sh", "Bash", "Fish", "Zsh">>,
              LAMBDA s : (CASE s = "Sh" -> "sh" [] s = "Bash" -> "bash"
                            [] s = "Fish" -> "fish" [] s = "Zsh" -> "zsh") \in present)

\* C8: the aggregate self_test() tests every discovered shell, returns Ok exactly
\* when no discovered shell fails its probe, and otherwise returns one failure per
\* failing shell and none for a passing one, in catalog order.
C8_CollectsEveryFailure ==
    st.pc = "done"
       => LET failing == FailingOf(PresentInCatalogOrder)
              r == st.result[1]
          IN /\ st.tested = PresentInCatalogOrder
             /\ r.ok <=> failing = <<>>
             /\ ~r.ok => /\ Len(r.failures) = Len(failing)
                         /\ \A i \in 1..Len(failing) : r.failures[i].shell = failing[i]

\* C9: discover() returns the present shells, each once, in the order sh, bash,
\* fish, zsh, and skips the absent ones; with bash and zsh alone present it
\* returns [bash, zsh].
C9_DiscoverPresentInCatalogOrder ==
    st.pc # "idle"
       => /\ st.shells = PresentInCatalogOrder
          /\ \A s \in Shells :
                Cardinality({i \in 1..Len(st.shells) : st.shells[i] = s})
                   = IF executable(s) \in present THEN 1 ELSE 0
          /\ present = {"bash", "zsh"} => st.shells = <<"Bash", "Zsh">>

\* discover() ran on a host with bash and zsh and without sh and fish
C9_Witness ==
    /\ st.pc = "loop"
    /\ present = {"bash", "zsh"}
    /\ st.shells = <<"Bash", "Zsh">>

\* What the per-shell self-test is said to return for each outcome of the probe.
Classified(outcome) ==
    CASE outcome = "exit_zero" -> "Ok"
      [] outcome = "spawn_failed" -> "SelfTestError::Command"
      [] outcome = "exit_nonzero" -> "SelfTestError::ShellFailed"
      [] outcome = "clock_failed" -> "SelfTestError::SystemTime"

\* C10: the per-shell self_test returns success when the command exits zero,
\* Command when the interpreter cannot be started, ShellFailed when the command
\* exits non-zero and SystemTime when timing fails.
C10_ShellSelfTestClassifies ==
    \A i \in 1..Len(st.returned) :
        st.returned[i].kind = Classified(probe[st.tested[i]])

\* C11: when the inner action fails during execute() or revert(), the call returns
\* that same failure, the inner action was invoked exactly once, and the action's
\* action_state() and channel list are what they were before the call.
C11_InnerFailurePropagates ==
    last.op \in {"execute", "revert"}
       => /\ Len(last.inner) = 1
          /\ last.inner[1].call = (IF last.op = "execute" THEN "try_execute" ELSE "revert")
          /\ ~last.inner[1].res.ok
                => /\ last.res = last.inner[1].res
                   /\ action_state(pcc[1]) = action_state(last.selfBefore[1])
                   /\ pcc[1].channels = last.selfBefore[1].channels

\* a revert() whose inner revert failed, on an action the owner had marked Completed
C11_Witness ==
    /\ prev.op = "set_action_state" /\ prev.out = <<Completed>>
    /\ last.op = "revert"
    /\ ~last.inner[1].res.ok
    /\ last.res = Err("CreateFileError::Io", "none")
    /\ action_state(pcc[1]) = Completed

\* C12: when the inner action's plan fails, plan fails too, builds no action,
\* changes no file, and returns PlaceChannelConfigurationError::CreateFile with
\* the inner error as its source.
C12_InnerPlanFailureIsWrapped ==
    (last.op = "plan" /\ last.inner # <<>> /\ ~last.inner[1].res.ok)
       => /\ ~last.res.ok
          /\ pcc = <<>>
          /\ fs = last.fsBefore
          /\ last.res = Err("PlaceChannelConfigurationError::CreateFile",
                            last.inner[1].res.kind)

\* C13: the aggregate self_test() always ends with a result, whatever shells are
\* discovered and whatever their probes would do, having visited each discovered
\* shell exactly once, in order.
C13_SelfTestTerminates ==
    <>(st.pc = "done" /\ st.result # <<>> /\ st.tested = st.shells)

\* the aggregate has returned on a host with all four shells, each failing its probe
C13_Witness ==
    /\ st.pc = "done"
    /\ st.result # <<>>
    /\ st.tested = <<"Sh", "Bash", "Fish", "Zsh">>
    /\ \A s \in Shells : probe[s] # "exit_zero"

\* The file a successful execute() of the planned action leaves at the target.
PlannedFile == File(Serialize(planned[1].channels), ModeChannels)

C15_ChannelsAndContentFixed ==
    pcc # <<>>
       => /\ pcc[1].channels = planned[1].channels
          /\ pcc[1].create_file.buf = Serialize(planned[1].channels)
          /\ last.selfBefore # <<>>
                => /\ pcc[1].channels = last.selfBefore[1].channels
                   /\ pcc[1].create_file.buf = last.selfBefore[1].create_file.buf

\* an executed action of two channels after set_action_state and a description call
C15_Witness ==
    /\ pcc # <<>>
    /\ prev.op = "set_action_state"
    /\ last.op = "revert_description"
    /\ pcc[1].create_file.action_state = Completed
    /\ Len(pcc[1].channels) = 2
    /\ fs[Target].content = Serialize(planned[1].channels)

\* C16: when the home directory resolves, plan calls the inner plan exactly once,
\* with the path .nix-channels under the home, no owner, no group, mode 0664, the
\* serialised content and the caller's force flag.
C16_InnerPlanArguments ==
    (last.op = "plan" /\ home # <<>>)
       => /\ Len(last.inner) = 1
          /\ last.inner[1].call = "plan"
          /\ last.inner[1].args =
                <<[path |-> home[1] \o <<".nix-channels">>,
                   user |-> <<>>, group |-> <<>>, mode |-> 436,
                   buf |-> Serialize(planned[1].channels),
                   force |-> planned[1].force]>>

\* plan was called without force over an existing file on a host with a home
C16_Witness ==
    /\ last.op = "plan" /\ home # <<>>
    /\ ~planned[1].force
    /\ Len(planned[1].channels) = 2
    /\ last.fsBefore[home[1] \o <<".nix-channels">>] = OldFile
    /\ Len(last.inner) = 1
    /\ ~last.inner[1].args[1].force

====
